---- MODULE Spec2Model ----
(***************************************************************************)
(* RepoConfig::from_str of src/repo_config.rs: the resolution of a         *)
(* .deployer.conf document into a RepoConfig (resolved defaults and one    *)
(* BranchConfig per branch), followed by RepoConfig::lookup_branch.        *)
(***************************************************************************)
EXTENDS Integers, Sequences, FiniteSets, TLC

----------------------------------------------------------------------------
(* Bounds of the input documents.                                          *)

\* most key/value pairs in a document with at most one branch section
MaxKeys == 4
\* most key/value pairs in a document with several branch sections
MaxKeysSeveral == 2

----------------------------------------------------------------------------
(* TOML values, as far as from_str tells them apart.                       *)

Str(s) == [type |-> "String", str |-> s]
Integer == [type |-> "Integer"]
Table(t) == [type |-> "Table", tab |-> t]

\* Option<T>
None == [some |-> FALSE]
Some(v) == [some |-> TRUE, val |-> v]

\* Result<T, Error>; line is the source line of the return statement taken
\* (0 for an error a collaborator returns, until the caller returns it)
Ok(v) == [ok |-> TRUE, val |-> v]
Err(desc, subject, line) ==
    [ok |-> FALSE, err |-> [desc |-> desc, subject |-> subject], line |-> line]

At(r, line) == [r EXCEPT !.line = line]

EmptyTable == [k \in {} |-> Integer]
Put(t, k, v) == [x \in DOMAIN t \cup {k} |-> IF x = k THEN v ELSE t[x]]

\* every table whose keys are among keys, key k holding a value of dom[k]
RECURSIVE TablesOver(_, _)
TablesOver(keys, dom) ==
    IF keys = {} THEN {EmptyTable}
    ELSE LET k == CHOOSE x \in keys : TRUE
             rest == TablesOver(keys \ {k}, dom)
         IN  rest \cup {Put(t, k, v) : t \in rest, v \in dom[k]}

----------------------------------------------------------------------------
(* The collaborators' view of the project root.                            *)

project_root == "./src/test/repo_config"

\* files that exist under project_root
ExistingFiles ==
    {"ansible/deploy.yml", "ansible/production.yml", "ansible/inventory/production"}

\* make tasks the project defines
DefinedTasks == {"deploy", "self-deploy"}

\* VerifiedPath::file(Some(project_root), Path::new(v))
VerifiedPath_file(v) ==
    IF v \in ExistingFiles THEN Ok(v)
    ELSE Err("file does not exist", Some(v), 0)

\* MakeTask::new(project_root, v)
MakeTask_new(v) ==
    IF v \in DefinedTasks THEN Ok(v)
    ELSE Err("make task is not defined", Some(v), 0)

\* AnsibleTask::new(p.to_string(), i.to_string(), &project_root)
AnsibleTask_new(p, i) == [playbook |-> p, inventory |-> i]

----------------------------------------------------------------------------
(* The input documents.                                                    *)

\* byte order of the branch names, the order of a BTreeMap<String, _>
NameOrder == <<"production", "staging">>
BranchNames == {NameOrder[i] : i \in DOMAIN NameOrder}

DefaultsValues ==
    [method |-> {Integer, Str("ansible"), Str("makefile"), Str("make"), Str("docker")},
     task |-> {Integer, Str("deploy"), Str("undefined-task")},
     playbook |-> {Integer, Str("ansible/deploy.yml"), Str("missing.yml")},
     notify_url |-> {Integer, Str("http://example.com")}]

BranchValues ==
    [method |-> {Integer, Str("ansible"), Str("makefile"), Str("make"), Str("docker")},
     playbook |-> {Integer, Str("ansible/production.yml"), Str("missing.yml")},
     inventory |-> {Integer, Str("ansible/inventory/production"), Str("missing.yml")},
     task |-> {Integer, Str("self-deploy"), Str("undefined-task")},
     notify_url |-> {Integer, Str("http://example.org")}]

DefaultsTables == TablesOver(DOMAIN DefaultsValues, DefaultsValues)
BranchTables == TablesOver(DOMAIN BranchValues, BranchValues)

Size(t) == Cardinality(DOMAIN t)

\* the [defaults] sections by number of keys
DefaultsSections ==
    [n \in 0..Cardinality(DOMAIN DefaultsValues) |->
        {Some(Table(t)) : t \in {x \in DefaultsTables : Size(x) = n}}]

\* the [branches.<name>] sections by number of keys; with no key also a scalar
BranchSections ==
    [n \in 0..Cardinality(DOMAIN BranchValues) |->
        {Table(t) : t \in {x \in BranchTables : Size(x) = n}}
            \cup (IF n = 0 THEN {Integer} ELSE {})]

Min(a, b) == IF a < b THEN a ELSE b

Entry(name, value) == [name |-> name, value |-> value]

\* the sequences of len branch sections, distinctly named from names, that
\* hold at most k keys
RECURSIVE EntrySeqs(_, _, _)
EntrySeqs(names, len, k) ==
    IF len = 0 THEN {<<>>}
    ELSE UNION {LET rests == EntrySeqs(names \ {n[1]}, len - 1, k - n[2])
                IN  {<<Entry(n[1], s)>> \o rest : s \in BranchSections[n[2]], rest \in rests}
                : n \in names \X (0..Min(k, Cardinality(DOMAIN BranchValues)))}

\* a document, its sections in the order they are written
Doc(defaults, branches) ==
    [wellformed |-> TRUE, defaults |-> defaults, branches |-> branches]
Unparsable == [wellformed |-> FALSE]

BranchesTable(es) == [type |-> "Table", entries |-> es]

\* the documents without a [defaults] table or without a `branches` table:
\* either is missing, or a scalar stands in its place
DocsOddlyShaped ==
    LET deploy == Table(Put(EmptyTable, "task", Str("self-deploy")))
        tables == {Some(BranchesTable(<<>>)),
                   Some(BranchesTable(<<Entry("production", deploy)>>))}
    IN  {Doc(d, b) : d \in {None, Some(Integer)}, b \in {None, Some(Integer)} \cup tables}
            \cup {Doc(Some(Table(EmptyTable)), b) : b \in {None, Some(Integer)}}

\* the most keys of a document with len branch sections
KeyBudget(len) == IF len <= 1 THEN MaxKeys ELSE MaxKeysSeveral

\* doc has a `branches` table of len sections, and at most KeyBudget(len) keys
IsDocWith(doc, len) ==
    \E kd \in 0..Min(KeyBudget(len), Cardinality(DOMAIN DefaultsValues)) :
        \E es \in EntrySeqs(BranchNames, len, KeyBudget(len) - kd) :
            \E d \in DefaultsSections[kd] :
                doc = Doc(d, Some(BranchesTable(es)))

----------------------------------------------------------------------------
(* toml::Parser and toml::Value.                                           *)

Rank(name) == CHOOSE i \in DOMAIN NameOrder : NameOrder[i] = name

\* the keys of a table in ascending order, as BTreeMap::iter yields them
RECURSIVE SortedKeys(_)
SortedKeys(keys) ==
    IF keys = {} THEN <<>>
    ELSE LET least == CHOOSE x \in keys : \A y \in keys : Rank(x) <= Rank(y)
         IN  <<least>> \o SortedKeys(keys \ {least})

\* toml::Parser::new(string).parse(): the root table, its `branches` a map
\* from branch name to value
Parse(string) ==
    IF ~string.wellformed THEN None
    ELSE LET es == string.branches.val.entries
             branches ==
                 IF string.branches.val.type # "Table" THEN Integer
                 ELSE Table([n \in {es[i].name : i \in DOMAIN es} |->
                               (CHOOSE e \in {es[i] : i \in DOMAIN es} : e.name = n).value])
             withDefaults ==
                 IF string.defaults.some THEN Put(EmptyTable, "defaults", string.defaults.val)
                 ELSE EmptyTable
         IN  Some(IF string.branches.some THEN Put(withDefaults, "branches", branches)
                  ELSE withDefaults)

\* LookupResult
Missing == [tag |-> "Missing"]
WrongType == [tag |-> "WrongType"]
Value(v) == [tag |-> "Value", v |-> v]

\* toml::Value::lookup with a one-segment path, then as_str
lookup_as_string(obj, key) ==
    IF obj.type # "Table" \/ key \notin DOMAIN obj.tab THEN Missing
    ELSE IF obj.tab[key].type # "String" THEN WrongType
    ELSE Value(obj.tab[key].str)

----------------------------------------------------------------------------
(* Defaults: lines 104-152.                                                *)

\* the match on the method string, lines 110-117 and 184-191
ParseMethod(v) ==
    CASE v = "ansible" -> Some("Ansible")
      [] v \in {"makefile", "make"} -> Some("Makefile")
      [] OTHER -> None

DefaultMethod(defaults) ==
    LET r == lookup_as_string(defaults, "method")
    IN  CASE r.tag = "Missing" -> Ok("Makefile")
          [] r.tag = "WrongType" ->
                Err("could not read 'defaults.method' as string",
                    Some("defaults.method"), 106)
          [] r.tag = "Value" ->
                IF ParseMethod(r.v).some THEN Ok(ParseMethod(r.v).val)
                ELSE Err("invalid type, valid values are 'ansible' and 'makefile'",
                         Some("defaults.method"), 113)

DefaultTask(defaults) ==
    LET r == lookup_as_string(defaults, "task")
    IN  CASE r.tag = "Missing" -> Ok(None)
          [] r.tag = "WrongType" ->
                Err("could not read 'defaults.task' as string",
                    Some("defaults.task"), 122)
          [] r.tag = "Value" ->
                IF MakeTask_new(r.v).ok THEN Ok(Some(MakeTask_new(r.v).val))
                ELSE At(MakeTask_new(r.v), 128)

DefaultPlaybook(defaults) ==
    LET r == lookup_as_string(defaults, "playbook")
    IN  CASE r.tag = "Missing" -> Ok(None)
          [] r.tag = "WrongType" ->
                Err("could not read 'defaults.playbook' as string",
                    Some("defaults.playbook"), 134)
          [] r.tag = "Value" ->
                IF VerifiedPath_file(r.v).ok THEN Ok(Some(VerifiedPath_file(r.v).val))
                ELSE At(VerifiedPath_file(r.v), 141)

DefaultNotifyUrl(defaults) ==
    LET r == lookup_as_string(defaults, "notify_url")
    IN  CASE r.tag = "Missing" -> Ok(None)
          [] r.tag = "WrongType" ->
                Err("could not read 'defaults.notify_url' as string",
                    Some("defaults.notify_url"), 147)
          [] r.tag = "Value" -> Ok(Some(r.v))

\* the four defaults in the order from_str reads them; the first error returns
ResolveDefaults(defaults) ==
    LET m == DefaultMethod(defaults)
        t == DefaultTask(defaults)
        p == DefaultPlaybook(defaults)
        n == DefaultNotifyUrl(defaults)
    IN  CASE ~m.ok -> m
          [] m.ok /\ ~t.ok -> t
          [] m.ok /\ t.ok /\ ~p.ok -> p
          [] m.ok /\ t.ok /\ p.ok /\ ~n.ok -> n
          [] OTHER -> Ok([default_method |-> m.val, default_task |-> t.val,
                          default_playbook |-> p.val, default_notify_url |-> n.val])

----------------------------------------------------------------------------
(* One pass of the loop over raw_branches: lines 170-264.                  *)

\* BranchMethod with Makefile, not default_method, for a missing key
BranchMethodNoInherit(table, default_method) ==
    LET r == lookup_as_string(table, "method")
    IN  CASE r.tag = "Missing" -> Ok("Makefile")
          [] r.tag = "WrongType" ->
                Err("could not read 'defaults.method' as string",
                    Some("defaults.method"), 180)
          [] r.tag = "Value" ->
                IF ParseMethod(r.v).some THEN Ok(ParseMethod(r.v).val)
                ELSE Err("invalid type, valid values are 'ansible' and 'makefile'",
                         Some("defaults.method"), 187)

\* lines 178-192
BranchMethod(table, default_method) ==
    LET r == lookup_as_string(table, "method")
    IN  CASE r.tag = "Missing" -> Ok(default_method)
          [] r.tag = "WrongType" ->
                Err("could not read 'defaults.method' as string",
                    Some("defaults.method"), 180)
          [] r.tag = "Value" ->
                IF ParseMethod(r.v).some THEN Ok(ParseMethod(r.v).val)
                ELSE Err("invalid type, valid values are 'ansible' and 'makefile'",
                         Some("defaults.method"), 187)

BranchPlaybook(table, key) ==
    LET r == lookup_as_string(table, "playbook")
    IN  CASE r.tag = "Missing" -> Ok(None)
          [] r.tag = "WrongType" ->
                Err("branch 'playbook' not a string",
                    Some("branch." \o key \o ".playbook"), 196)
          [] r.tag = "Value" ->
                IF VerifiedPath_file(r.v).ok THEN Ok(Some(VerifiedPath_file(r.v).val))
                ELSE At(VerifiedPath_file(r.v), 203)

BranchInventory(table, key) ==
    LET r == lookup_as_string(table, "inventory")
    IN  CASE r.tag = "Missing" -> Ok(None)
          [] r.tag = "WrongType" ->
                Err("branch 'inventory' not a string",
                    Some("branch." \o key \o ".inventory"), 208)
          [] r.tag = "Value" ->
                IF VerifiedPath_file(r.v).ok THEN Ok(Some(VerifiedPath_file(r.v).val))
                ELSE At(VerifiedPath_file(r.v), 215)

\* AnsibleTask with the default playbook taken before the branch's own
AnsibleTaskDefaultFirst(method, playbook, inventory, default_playbook, key) ==
    IF method = "Ansible"
    THEN CASE inventory.some /\ default_playbook.some ->
                Ok(Some(AnsibleTask_new(default_playbook.val, inventory.val)))
           [] playbook.some /\ inventory.some /\ ~default_playbook.some ->
                Ok(Some(AnsibleTask_new(playbook.val, inventory.val)))
           [] OTHER ->
                Err("could not combine default and branch config to find playbook + inventory combination",
                    Some("branch." \o key), 223)
    ELSE Ok(None)

\* AnsibleTask with no task, not an error, when no pair can be combined
AnsibleTaskNoError(method, playbook, inventory, default_playbook, key) ==
    IF method = "Ansible"
    THEN CASE playbook.some /\ inventory.some ->
                Ok(Some(AnsibleTask_new(playbook.val, inventory.val)))
           [] ~playbook.some /\ inventory.some /\ default_playbook.some ->
                Ok(Some(AnsibleTask_new(default_playbook.val, inventory.val)))
           [] OTHER -> Ok(None)
    ELSE Ok(None)

\* lines 219-228
AnsibleTask(method, playbook, inventory, default_playbook, key) ==
    IF method = "Ansible"
    THEN CASE playbook.some /\ inventory.some ->
                Ok(Some(AnsibleTask_new(playbook.val, inventory.val)))
           [] ~playbook.some /\ inventory.some /\ default_playbook.some ->
                Ok(Some(AnsibleTask_new(default_playbook.val, inventory.val)))
           [] OTHER ->
                Err("could not combine default and branch config to find playbook + inventory combination",
                    Some("branch." \o key), 223)
    ELSE Ok(None)

\* MakeTask without its test of the method
MakeTaskAnyMethod(method, table, key) ==
    LET r == lookup_as_string(table, "task")
    IN  CASE r.tag = "Missing" -> Ok(None)
          [] r.tag = "WrongType" ->
                Err("branch 'task' not a string",
                    Some("branch." \o key \o ".task"), 233)
          [] r.tag = "Value" ->
                IF MakeTask_new(r.v).ok THEN Ok(Some(MakeTask_new(r.v).val))
                ELSE At(MakeTask_new(r.v), 239)

\* lines 230-242
MakeTask(method, table, key) ==
    IF method = "Makefile"
    THEN LET r == lookup_as_string(table, "task")
         IN  CASE r.tag = "Missing" -> Ok(None)
               [] r.tag = "WrongType" ->
                     Err("branch 'task' not a string",
                         Some("branch." \o key \o ".task"), 233)
               [] r.tag = "Value" ->
                     IF MakeTask_new(r.v).ok THEN Ok(Some(MakeTask_new(r.v).val))
                     ELSE At(MakeTask_new(r.v), 239)
    ELSE Ok(None)

\* Completeness without its check
CompletenessUnchecked(make_task, ansible_task, key) == Ok(TRUE)

\* lines 244-249
Completeness(make_task, ansible_task, key) ==
    IF ~make_task.some /\ ~ansible_task.some
    THEN Err("cannot construct a task for branch between local config and defaults",
             Some("branch." \o key), 245)
    ELSE Ok(TRUE)

\* BranchNotifyUrl with the branch name in place of the value
BranchNotifyUrlOfKey(table, key) ==
    LET r == lookup_as_string(table, "notify_url")
    IN  CASE r.tag = "Missing" -> Ok(None)
          [] r.tag = "WrongType" ->
                Err("branch 'notify_url' not a string",
                    Some("branch." \o key \o ".notify_url"), 257)
          [] r.tag = "Value" -> Ok(Some(key))

\* lines 255-262
BranchNotifyUrl(table, key) ==
    LET r == lookup_as_string(table, "notify_url")
    IN  CASE r.tag = "Missing" -> Ok(None)
          [] r.tag = "WrongType" ->
                Err("branch 'notify_url' not a string",
                    Some("branch." \o key \o ".notify_url"), 257)
          [] r.tag = "Value" -> Ok(Some(r.v))

\* the body of the loop for the entry (key, table): the BranchConfig that is
\* inserted, or the error that is returned
ResolveBranch(key, table, d) ==
    IF table.type # "Table"
    THEN Err("every 'branches' must be a table", Some(key), 172)
    ELSE
    LET method == BranchMethod(table, d.default_method)
        playbook == BranchPlaybook(table, key)
        inventory == BranchInventory(table, key)
        ansible_task == AnsibleTask(method.val, playbook.val, inventory.val,
                                    d.default_playbook, key)
        make_task == MakeTask(method.val, table, key)
        complete == Completeness(make_task.val, ansible_task.val, key)
        notify_url == BranchNotifyUrl(table, key)
    IN  IF ~method.ok THEN method
        ELSE IF ~playbook.ok THEN playbook
        ELSE IF ~inventory.ok THEN inventory
        ELSE IF ~ansible_task.ok THEN ansible_task
        ELSE IF ~make_task.ok THEN make_task
        ELSE IF ~complete.ok THEN complete
        ELSE IF ~notify_url.ok THEN notify_url
        ELSE Ok([method |-> method.val, make_task |-> make_task.val,
                 ansible_task |-> ansible_task.val, notify_url |-> notify_url.val])

----------------------------------------------------------------------------
(* from_str as a state machine, then lookup_branch on its result.          *)

VARIABLES
    string,        \* the document from_str is given
    pc,            \* where from_str stands: "parse", "defaults", "branches", "loop", "done"
    root,          \* the parsed document
    defaults,      \* default_method, default_task, default_playbook, default_notify_url
    raw_branches,  \* the `branches` table
    iter,          \* the keys raw_branches.iter() has yet to yield
    key,           \* the loop's current branch name
    branches,      \* the BranchConfigMap built so far
    result,        \* what from_str returned, once it has
    looked         \* the last lookup_branch call and what it returned

vars == <<string, pc, root, defaults, raw_branches, iter, key, branches, result, looked>>

Init ==
    /\ \/ \E len \in 0..Cardinality(BranchNames) : IsDocWith(string, len)
       \/ string \in {Unparsable} \cup DocsOddlyShaped
    /\ pc = "parse"
    /\ root = None
    /\ defaults = None
    /\ raw_branches = None
    /\ iter = <<>>
    /\ key = ""
    /\ branches = EmptyTable
    /\ result = None
    /\ looked = None

Return(r) ==
    /\ result' = Some(r)
    /\ pc' = "done"

\* lines 88-94
ParseToml ==
    /\ pc = "parse"
    /\ root' = Parse(string)
    /\ IF root'.some
       THEN pc' = "defaults" /\ UNCHANGED result
       ELSE Return(Err("could not parse toml", None, 90))
    /\ UNCHANGED <<string, defaults, raw_branches, iter, key, branches, looked>>

\* lines 96-152
Defaults ==
    /\ pc = "defaults"
    /\ IF "defaults" \notin DOMAIN root.val
       THEN /\ Return(Err("missing 'defaults' section", Some("defaults"), 98))
            /\ UNCHANGED defaults
       ELSE LET r == ResolveDefaults(root.val["defaults"])
            IN  IF r.ok
                THEN defaults' = Some(r.val) /\ pc' = "branches" /\ UNCHANGED result
                ELSE Return(r) /\ UNCHANGED defaults
    /\ UNCHANGED <<string, root, raw_branches, iter, key, branches, looked>>

\* the keys of a table in descending order
RECURSIVE SortedKeysDescending(_)
SortedKeysDescending(keys) ==
    IF keys = {} THEN <<>>
    ELSE LET greatest == CHOOSE x \in keys : \A y \in keys : Rank(y) <= Rank(x)
         IN  <<greatest>> \o SortedKeysDescending(keys \ {greatest})

\* Iter from the greatest key down
IterDescending(table) == SortedKeysDescending(DOMAIN table)

\* raw_branches.iter(), line 170
Iter(table) == SortedKeys(DOMAIN table)

\* lines 154-168
Branches ==
    /\ pc = "branches"
    /\ IF "branches" \notin DOMAIN root.val
       THEN /\ Return(Err("must configure at least one branch (missing [branches.*])",
                          Some("branches.*"), 155))
            /\ UNCHANGED <<raw_branches, iter>>
       ELSE IF root.val["branches"].type # "Table"
       THEN /\ Return(Err("'branches' must be a table", Some("branches"), 160))
            /\ UNCHANGED <<raw_branches, iter>>
       ELSE /\ raw_branches' = Some(root.val["branches"].tab)
            /\ iter' = Iter(root.val["branches"].tab)
            /\ pc' = "loop"
            /\ UNCHANGED result
    /\ UNCHANGED <<string, root, defaults, key, branches, looked>>

\* lines 170-264, one pass
Loop ==
    /\ pc = "loop"
    /\ iter # <<>>
    /\ key' = Head(iter)
    /\ iter' = Tail(iter)
    /\ LET r == ResolveBranch(key', raw_branches.val[key'], defaults.val)
       IN  IF r.ok
           THEN branches' = Put(branches, key', r.val) /\ UNCHANGED <<pc, result>>
           ELSE Return(r) /\ UNCHANGED branches
    /\ UNCHANGED <<string, root, defaults, raw_branches, looked>>

\* lines 266-273
ReturnOk ==
    /\ pc = "loop"
    /\ iter = <<>>
    /\ Return(Ok([default_method |-> defaults.val.default_method,
                  default_task |-> defaults.val.default_task,
                  default_playbook |-> defaults.val.default_playbook,
                  default_notify_url |-> defaults.val.default_notify_url,
                  branches |-> branches,
                  project_root |-> project_root]))
    /\ UNCHANGED <<string, root, defaults, raw_branches, iter, key, branches, looked>>

\* lines 64-66
lookup_branch(self, name) ==
    IF name \in DOMAIN self.branches THEN Some(self.branches[name]) ELSE None

LookupBranch ==
    /\ pc = "done"
    /\ result.val.ok
    /\ \E name \in BranchNames :
          looked' = Some([name |-> name, found |-> lookup_branch(result.val.val, name)])
    /\ UNCHANGED <<string, pc, root, defaults, raw_branches, iter, key, branches, result>>

Next == ParseToml \/ Defaults \/ Branches \/ Loop \/ ReturnOk \/ LookupBranch

Spec == Init /\ [][Next]_vars

----------------------------------------------------------------------------
(* What the claims speak of, read off the document and the result.         *)

Done == pc = "done"
Loaded == Done /\ result.val.ok
Failed == Done /\ ~result.val.ok

\* the branch sections of the document, in the order they are written
Sections ==
    IF string.wellformed /\ string.branches.some /\ string.branches.val.type = "Table"
    THEN string.branches.val.entries
    ELSE <<>>
Declared == {Sections[i].name : i \in DOMAIN Sections}
Section(n) == (CHOOSE e \in {Sections[i] : i \in DOMAIN Sections} : e.name = n).value

\* what the document holds at `defaults` (a scalar when there is no section)
DocDefaults ==
    IF string.wellformed /\ string.defaults.some THEN string.defaults.val ELSE Integer

HasKey(sec, k) == sec.type = "Table" /\ k \in DOMAIN sec.tab
HasString(sec, k) == HasKey(sec, k) /\ sec.tab[k].type = "String"
HasNonString(sec, k) == HasKey(sec, k) /\ sec.tab[k].type # "String"

\* the loop has just resolved branch n: inserted it, or returned its error
Resolved(n) == n # "" /\ key = n /\ (n \in DOMAIN branches \/ Failed)

CombinationError ==
    "could not combine default and branch config to find playbook + inventory combination"
CompletenessError ==
    "cannot construct a task for branch between local config and defaults"

\* the method strings and what each stands for
MethodOf(v) ==
    CASE v = "ansible" -> "Ansible"
      [] v = "makefile" -> "Makefile"
      [] v = "make" -> "Makefile"
      [] OTHER -> "rejected"

\* the effective method of branch n as the document states it
Effective(n) ==
    IF HasString(Section(n), "method") THEN MethodOf(Section(n).tab["method"].str)
    ELSE IF HasString(DocDefaults, "method") THEN MethodOf(DocDefaults.tab["method"].str)
    ELSE "Makefile"

\* key k of the section is absent, or names a file that exists
PathUsable(sec, k) ==
    ~HasKey(sec, k) \/ (HasString(sec, k) /\ sec.tab[k].str \in ExistingFiles)

\* branch n reaches the construction of its task: its section is a table,
\* its method is not a scalar, its playbook and inventory raise no error
ReachesTask(n) ==
    /\ Section(n).type = "Table"
    /\ ~HasNonString(Section(n), "method")
    /\ PathUsable(Section(n), "playbook")
    /\ PathUsable(Section(n), "inventory")

----------------------------------------------------------------------------
(* C1 *)

ExactlyOneTask(b) ==
    /\ b.method \in {"Ansible", "Makefile"}
    /\ b.method = "Makefile" => b.make_task.some /\ ~b.ansible_task.some
    /\ b.method = "Ansible" => b.ansible_task.some /\ ~b.make_task.some

\* C1: after a successful load, lookup_branch returns Some for every branch
\* the document declares, and every BranchConfig holds exactly the task of
\* its method: a make task and no ansible task for Makefile, an ansible task
\* and no make task for Ansible.
C1_DeclaredBranchesResolved ==
    /\ Loaded =>
          \A n \in Declared :
              /\ lookup_branch(result.val.val, n).some
              /\ ExactlyOneTask(lookup_branch(result.val.val, n).val)
    /\ (Loaded /\ looked.some /\ looked.val.name \in Declared) =>
          looked.val.found.some /\ ExactlyOneTask(looked.val.found.val)

\* a load of two branches succeeded and lookup_branch found one of them, a
\* Makefile branch with its make task
C1_Witness ==
    /\ Loaded
    /\ Cardinality(Declared) = 2
    /\ looked.some
    /\ looked.val.found.some
    /\ looked.val.found.val.make_task.some

----------------------------------------------------------------------------
(* C2 *)

\* C2: a document whose `branches` table is missing or empty fails to load.
C2_NoBranchFails ==
    (Done /\ string.wellformed
          /\ (~string.branches.some
                \/ (string.branches.val.type = "Table" /\ Sections = <<>>)))
        => ~result.val.ok

----------------------------------------------------------------------------
(* C3 *)

\* the key a WrongType return is about, by the line of the return
WrongTypeSubject ==
    [l \in {106, 122, 134, 147, 180, 196, 208, 233, 257} |->
        CASE l = 106 -> "defaults.method"
          [] l = 122 -> "defaults.task"
          [] l = 134 -> "defaults.playbook"
          [] l = 147 -> "defaults.notify_url"
          [] l = 180 -> "branch." \o key \o ".method"
          [] l = 196 -> "branch." \o key \o ".playbook"
          [] l = 208 -> "branch." \o key \o ".inventory"
          [] l = 233 -> "branch." \o key \o ".task"
          [] l = 257 -> "branch." \o key \o ".notify_url"]

\* C3: when the load fails because a recognized key is present but not a
\* string, the error's subject is the path of that key: defaults.<key>, or
\* branch.<name>.<key> for a key of branch <name>.
C3_WrongTypeSubject ==
    (Failed /\ result.val.line \in DOMAIN WrongTypeSubject)
        => result.val.err.subject = Some(WrongTypeSubject[result.val.line])

----------------------------------------------------------------------------
(* C4 *)

\* some recognized key of the document holds a value that is not a string
SomeKeyNotString ==
    /\ string.wellformed
    /\ \/ \E k \in DOMAIN DefaultsValues : HasNonString(DocDefaults, k)
       \/ \E n \in Declared : \E k \in DOMAIN BranchValues : HasNonString(Section(n), k)

\* C4: a document in which a recognized key is present with a value that is
\* not a string never loads, whatever the branch's method.
C4_NonStringFails == (Done /\ SomeKeyNotString) => ~result.val.ok

----------------------------------------------------------------------------
(* C5 *)

\* some method key of the document holds a string that is no method
SomeMethodRejected ==
    /\ string.wellformed
    /\ \/ HasString(DocDefaults, "method")
            /\ MethodOf(DocDefaults.tab["method"].str) = "rejected"
       \/ \E n \in Declared :
            /\ HasString(Section(n), "method")
            /\ MethodOf(Section(n).tab["method"].str) = "rejected"

\* C5: the method of every resolved branch is the one its own `method`
\* string names, else the one the `method` string of defaults names, else
\* Makefile, "ansible" naming Ansible and "makefile" and "make" both naming
\* Makefile; a document with any other method string does not load.
C5_EffectiveMethod ==
    /\ \A n \in DOMAIN branches : branches[n].method = Effective(n)
    /\ Loaded => \A n \in Declared : lookup_branch(result.val.val, n).val.method = Effective(n)
    /\ (Done /\ SomeMethodRejected) => ~result.val.ok

\* a branch without a method of its own was resolved to the Ansible of defaults
C5_Witness ==
    /\ Loaded
    /\ \E n \in Declared :
          /\ ~HasKey(Section(n), "method")
          /\ HasString(DocDefaults, "method")
          /\ result.val.val.branches[n].method = "Ansible"

----------------------------------------------------------------------------
(* C6 *)

\* the (playbook, inventory) pair the branch and the defaults combine to
HasPlaybook(n) == HasKey(Section(n), "playbook")
HasInventory(n) == HasKey(Section(n), "inventory")
OwnPair(n) ==
    [playbook |-> Section(n).tab["playbook"].str,
     inventory |-> Section(n).tab["inventory"].str]
SharedPair(n) ==
    [playbook |-> DocDefaults.tab["playbook"].str,
     inventory |-> Section(n).tab["inventory"].str]

\* C6: an Ansible branch with its own playbook and inventory gets exactly
\* that pair; one with an inventory only gets its inventory with the default
\* playbook when defaults has one; in every other combination the load fails
\* with the combination error on branch.<name>.
C6_AnsiblePair ==
    \A n \in Declared :
        (Resolved(n) /\ ReachesTask(n) /\ Effective(n) = "Ansible") =>
            CASE HasPlaybook(n) /\ HasInventory(n) ->
                    /\ n \in DOMAIN branches => branches[n].ansible_task = Some(OwnPair(n))
                    /\ Failed => result.val.err.desc # CombinationError
              [] ~HasPlaybook(n) /\ HasInventory(n) /\ HasKey(DocDefaults, "playbook") ->
                    /\ n \in DOMAIN branches => branches[n].ansible_task = Some(SharedPair(n))
                    /\ Failed => result.val.err.desc # CombinationError
              [] OTHER ->
                    /\ Failed
                    /\ result.val.err = [desc |-> CombinationError,
                                         subject |-> Some("branch." \o n)]

\* an Ansible branch with its own playbook and inventory was resolved while
\* defaults had a playbook too
C6_Witness ==
    \E n \in Declared :
        /\ Resolved(n) /\ ReachesTask(n) /\ Effective(n) = "Ansible"
        /\ HasPlaybook(n) /\ HasInventory(n) /\ HasKey(DocDefaults, "playbook")
        /\ n \in DOMAIN branches

----------------------------------------------------------------------------
(* C7 *)

\* C7: a Makefile branch without a `task` key gets no make task, from
\* defaults.task neither: the load fails with the completeness error on
\* branch.<name>.
C7_NoDefaultTask ==
    \A n \in Declared :
        (Resolved(n) /\ ReachesTask(n) /\ Effective(n) = "Makefile"
                     /\ ~HasKey(Section(n), "task")) =>
            /\ Failed
            /\ result.val.err = [desc |-> CompletenessError,
                                 subject |-> Some("branch." \o n)]

\* such a branch was resolved while defaults had a valid task
C7_Witness ==
    \E n \in Declared :
        /\ Resolved(n) /\ ReachesTask(n) /\ Effective(n) = "Makefile"
        /\ ~HasKey(Section(n), "task")
        /\ defaults.val.default_task.some

----------------------------------------------------------------------------
(* C8 *)

\* branch n is an Ansible branch for which no pair can be combined
NoPair(n) ==
    /\ ReachesTask(n) /\ Effective(n) = "Ansible"
    /\ ~HasInventory(n) \/ (~HasPlaybook(n) /\ ~HasKey(DocDefaults, "playbook"))

\* C8 as stated: an Ansible branch for which no pair can be combined fails
\* with the completeness error.
C8_AnsibleCompleteness ==
    \A n \in Declared :
        (Resolved(n) /\ NoPair(n)) => Failed /\ result.val.err.desc = CompletenessError

\* C8 amended: the completeness error is returned only for a Makefile branch
\* without a task; an Ansible branch for which no pair can be combined fails
\* before that check, with the combination error.
C8_CompletenessOnlyMakefile ==
    /\ (Failed /\ result.val.err.desc = CompletenessError) =>
          /\ key \in Declared
          /\ Effective(key) = "Makefile"
          /\ ~HasKey(Section(key), "task")
    /\ \A n \in Declared :
          (Resolved(n) /\ NoPair(n)) => Failed /\ result.val.err.desc = CombinationError

\* an Ansible branch for which no pair can be combined has failed
C8_Witness == \E n \in Declared : Resolved(n) /\ NoPair(n) /\ Failed

----------------------------------------------------------------------------
(* C9 *)

\* branch n, resolved on its own against the defaults, is an error
Invalid(n) == ~ResolveBranch(n, Section(n), defaults.val).ok

\* where the section of n stands in the document
Position(n) == CHOOSE i \in DOMAIN Sections : Sections[i].name = n

\* C9 as stated: a load that fails in the loop returns the error of the
\* invalid branch that stands first in the document, and no RepoConfig.
C9_DocumentOrder ==
    (Failed /\ key # "") =>
        /\ Invalid(key)
        /\ \A n \in Declared : Invalid(n) => Position(key) <= Position(n)
        /\ result.val = ResolveBranch(key, Section(key), defaults.val)

\* C9 amended: the defaults are resolved first, then the branches one at a
\* time in ascending order of their names; a load that fails in the loop
\* returns the error of the invalid branch whose name is least, and no
\* RepoConfig, the branches resolved before it being dropped.
C9_NameOrder ==
    /\ key # "" => defaults.some
    /\ \A n \in DOMAIN branches : Rank(n) <= Rank(key)
    /\ (Failed /\ key # "") =>
          /\ Invalid(key)
          /\ \A n \in Declared : Invalid(n) => Rank(key) <= Rank(n)
          /\ result.val = ResolveBranch(key, Section(key), defaults.val)
          /\ "val" \notin DOMAIN result.val
    /\ Loaded => DOMAIN result.val.val.branches = Declared

\* a load failed on the first of two invalid branches, which the document
\* writes second
C9_Witness ==
    /\ Failed /\ key # ""
    /\ Cardinality({n \in Declared : Invalid(n)}) = 2
    /\ Position(key) = 2

----------------------------------------------------------------------------
(* C10 *)

\* C10: the notify_url of a resolved branch is the string of its own
\* `notify_url` key, unchanged, and None when it has no such key, whatever
\* defaults.notify_url is.
C10_NotifyUrlOwn ==
    /\ \A n \in DOMAIN branches :
          branches[n].notify_url =
              IF HasKey(Section(n), "notify_url")
              THEN Some(Section(n).tab["notify_url"].str)
              ELSE None
    /\ Loaded => result.val.val.branches = branches

\* a branch without notify_url was loaded while defaults had one
C10_Witness ==
    /\ Loaded
    /\ result.val.val.default_notify_url.some
    /\ \E n \in Declared :
          /\ ~HasKey(Section(n), "notify_url")
          /\ ~result.val.val.branches[n].notify_url.some

====
